---- MODULE Spec2Model ----
(***************************************************************************)
(* ChroniCompanion backend: the health-signal aggregation functions of     *)
(* ExportService (statistics, medical patterns), the chart-data endpoint,  *)
(* the OpenAIService gateway with its context builders, and the entries    *)
(* API over the journal_entries table.                                     *)
(*                                                                         *)
(* Encodings.  A metric value is an integer 0..10; Python None is the      *)
(* integer None, a key that is not in the dict is Absent.  A Python float  *)
(* that results from a true division of two integers is the reduced        *)
(* fraction <<numerator, denominator>>; None in the place of such a float  *)
(* is NoData.  A date string YYYY-MM-DD is its day number (the strings     *)
(* sort in day order).  A returned list is a sequence, a returned dict a   *)
(* record, a raised exception the record [kind |-> "raise", exc |-> type]. *)
(***************************************************************************)
EXTENDS Integers, Sequences, FiniteSets, TLC

VARIABLES entries, op, arg, result, enabled, pc, calls, response, prompt, table,
          threads, launcher

vars == <<entries, op, arg, result, enabled, pc, calls, response, prompt, table,
          threads, launcher>>

\* ---------------------------------------------------------------- bounds
MaxEntries == 3
MaxDates == 2
MaxGatewayEntries == 2
MaxTextLen == 2

\* ------------------------------------------------------------- encodings
None == -1
Absent == -2
NoData == <<>>
NoneStr == "None"
AbsentStr == "absent"

Returned(v) == [kind |-> "return", value |-> v]
Raised(e) == [kind |-> "raise", exc |-> e]
NoResult == [kind |-> "none"]
NoResponse == [kind |-> "none"]
NoPrompt == <<>>
\* no concurrent invocations; the launcher was not constructed
NoThreads == <<>>
NotLaunched == [at |-> "none"]
PyNone == [type |-> "NoneType"]
PyStr(text) == [type |-> "str", text |-> text]

\* ------------------------------------------------------- entry dictionary
MetricKeys == <<"mood_overall", "energy_level", "pain_level", "anxiety_level", "fatigue_level">>

MetricVals == <<None, 0, 4, 8>>
SleepVals == <<"poor", "good", "very_poor", NoneStr>>
TypeVals == <<"morning", "evening", "morning", NoneStr>>
\* a free text is its number of characters
TextVals == <<None, 0, 120, 200>>

Rot(s, k) == ((s + k - 1) % 4) + 1

\* An unreported field is None in the dict an endpoint builds from a row,
\* and is left out of a dict whose writer omits it (sparse).
Unreported(sparse) == IF sparse THEN Absent ELSE None
UnreportedStr(sparse) == IF sparse THEN AbsentStr ELSE NoneStr

Metric(s, k, sparse) ==
    IF MetricVals[Rot(s, k)] = None THEN Unreported(sparse) ELSE MetricVals[Rot(s, k)]

Text(s, k, sparse) ==
    IF TextVals[Rot(s, k)] = None THEN Unreported(sparse) ELSE TextVals[Rot(s, k)]

Entry(d, s, sparse) ==
    [date |-> d,
     morning_feeling |-> Text(s, 0, sparse),
     morning_hopes |-> Text(s, 1, sparse),
     morning_symptoms |-> Text(s, 2, sparse),
     evening_day_review |-> Text(s, 3, sparse),
     evening_gratitude |-> Text(5 - s, 0, sparse),
     evening_symptoms |-> Text(5 - s, 1, sparse),
     additional_notes |-> Text(s, 3, sparse),
     entry_type |-> IF TypeVals[s] = NoneStr THEN UnreportedStr(sparse) ELSE TypeVals[s],
     mood_overall |-> Metric(s, 0, sparse),
     energy_level |-> Metric(s, 1, sparse),
     pain_level |-> Metric(s, 2, sparse),
     anxiety_level |-> Metric(s, 3, sparse),
     fatigue_level |-> Metric(5 - s, 0, sparse),
     sleep_quality |-> IF SleepVals[s] = NoneStr THEN UnreportedStr(sparse) ELSE SleepVals[s]]

Dates == 1..MaxDates
RowPool == {Entry(d, s, FALSE) : d \in Dates, s \in 1..4}
SparsePool == {Entry(d, s, TRUE) : d \in Dates, s \in 1..4}

\* A list is written by one writer: an endpoint (rows turned into dicts that
\* hold every key) or a caller that leaves unreported keys out.
IsRows(es) == \A i \in 1..Len(es) : es[i] \in RowPool
IsSparse(es) == \A i \in 1..Len(es) : es[i] \in SparsePool

\* The gateway reads no date: its lists hold entries of one day.
GatewayPool == {Entry(1, s, b) : s \in 1..4, b \in BOOLEAN}

\* dict.get(key) and dict.get(key, default)
\* e.get(k, d) only reads: the dict is afterwards what it was
\* (e.setdefault(k, d) would store d under a missing key)
AfterSetDefault(e, k, d) ==
    IF e[k] = (IF k = "sleep_quality" THEN AbsentStr ELSE Absent)
    THEN [e EXCEPT ![k] = d] ELSE e
AfterGet(e, k, d) == e

Get(e, k) == IF e[k] = Absent THEN None ELSE e[k]
GetDefault(e, k, d) == IF e[k] = Absent THEN d ELSE e[k]
GetStr(e, k) == IF e[k] = AbsentStr THEN NoneStr ELSE e[k]

\* ------------------------------------------------------ Python built-ins
RECURSIVE Sum(_)
Sum(s) == IF s = <<>> THEN 0 ELSE Head(s) + Sum(Tail(s))

RECURSIVE Min(_)
Min(s) == IF Len(s) = 1 THEN s[1]
          ELSE LET m == Min(Tail(s)) IN IF Head(s) <= m THEN Head(s) ELSE m

RECURSIVE Max(_)
Max(s) == IF Len(s) = 1 THEN s[1]
          ELSE LET m == Max(Tail(s)) IN IF Head(s) >= m THEN Head(s) ELSE m

RECURSIVE GCD(_, _)
GCD(a, b) == IF b = 0 THEN a ELSE GCD(b, a % b)

\* true division a / b of integers, b > 0, a >= 0
TrueDiv(a, b) == LET g == GCD(a, b) IN <<a \div g, b \div g>>

\* sorted(keys) of a set of day numbers
RECURSIVE SortedDescending(_)
SortedDescending(S) == IF S = {} THEN <<>>
                       ELSE LET m == CHOOSE x \in S : \A y \in S : x >= y
                            IN <<m>> \o SortedDescending(S \ {m})

RECURSIVE Sorted(_)
Sorted(S) == IF S = {} THEN <<>>
             ELSE LET m == CHOOSE x \in S : \A y \in S : x <= y
                  IN <<m>> \o Sorted(S \ {m})

\* [e.get(k) for e in entries]
Values(es, k) == [i \in 1..Len(es) |-> Get(es[i], k)]

\* ============================================================ ExportService
\* [e.get(k) for e in entries if e.get(k) is not None]
StatKeepsTruthy(v) == v # None /\ v # 0
StatKeeps(v) == v # None

StatValues(es, k) == SelectSeq(Values(es, k), StatKeeps)

StatAverage(values) == IF values # <<>> THEN TrueDiv(Sum(values), Len(values)) ELSE NoData
StatRange(values) == IF values # <<>> THEN <<Min(values), Max(values)>> ELSE NoData

_calculate_statistics(es) ==
    LET mood_values == StatValues(es, "mood_overall")
        energy_values == StatValues(es, "energy_level")
        pain_values == StatValues(es, "pain_level")
        anxiety_values == StatValues(es, "anxiety_level")
        fatigue_values == StatValues(es, "fatigue_level")
    IN [avg_mood |-> StatAverage(mood_values), mood_range |-> StatRange(mood_values),
        avg_energy |-> StatAverage(energy_values), energy_range |-> StatRange(energy_values),
        avg_pain |-> StatAverage(pain_values), pain_range |-> StatRange(pain_values),
        avg_anxiety |-> StatAverage(anxiety_values), anxiety_range |-> StatRange(anxiety_values),
        avg_fatigue |-> StatAverage(fatigue_values), fatigue_range |-> StatRange(fatigue_values)]

\* x >= k, x <= k of Python raise TypeError when x is None
Unorderable(v) == v = None

\* count > len(entries) * 0.3 (0.4): the float product and the comparison
\* agree with the exact one, 10 * count > tenths * n, for every n up to 5000.
OverFraction(count, n, tenths) == 10 * count > tenths * n

HighPainDefault == 0
LowEnergyDefault == 10
HighAnxietyDefault == 0

PainOf(e) == GetDefault(e, "pain_level", HighPainDefault)
EnergyOf(e) == GetDefault(e, "energy_level", LowEnergyDefault)
AnxietyOf(e) == GetDefault(e, "anxiety_level", HighAnxietyDefault)

NoPatternsMarker == <<"no_significant_patterns">>

\* The four rules in the order of the code; a list comprehension that meets
\* an unorderable value ends the call with TypeError.
_identify_medical_patterns(es) ==
    LET n == Len(es)
        high_pain_count == Len(SelectSeq(es, LAMBDA e : PainOf(e) >= 7))
        poor_sleep_count == Len(SelectSeq(es, LAMBDA e : GetStr(e, "sleep_quality") \in {"poor", "very_poor"}))
        low_energy_count == Len(SelectSeq(es, LAMBDA e : EnergyOf(e) <= 3))
        high_anxiety_count == Len(SelectSeq(es, LAMBDA e : AnxietyOf(e) >= 7))
        p1 == IF OverFraction(high_pain_count, n, 3)
              THEN <<<<"high_pain", high_pain_count, n>>>> ELSE <<>>
        p2 == IF OverFraction(poor_sleep_count, n, 4)
              THEN Append(p1, <<"poor_sleep", poor_sleep_count, n>>) ELSE p1
        p3 == IF OverFraction(low_energy_count, n, 3)
              THEN Append(p2, <<"low_energy", low_energy_count, n>>) ELSE p2
        p4 == IF OverFraction(high_anxiety_count, n, 3)
              THEN Append(p3, <<"high_anxiety", high_anxiety_count, n>>) ELSE p3
    IN IF (\E i \in 1..Len(es) : Unorderable(PainOf(es[i]))) THEN Raised("TypeError")
       ELSE IF (\E i \in 1..Len(es) : Unorderable(EnergyOf(es[i]))) THEN Raised("TypeError")
       ELSE IF (\E i \in 1..Len(es) : Unorderable(AnxietyOf(es[i]))) THEN Raised("TypeError")
       ELSE Returned(IF p4 = <<>> THEN <<NoPatternsMarker>> ELSE p4)

\* ============================================================ get_chart_data
ChartMetrics == <<"mood", "energy", "pain", "anxiety", "fatigue">>
ChartLabels == <<"Mood", "Energy", "Pain", "Anxiety", "Fatigue">>
ChartParams == {"all", "mood", "energy", "pain", "anxiety", "fatigue"}

EmptyDay == [mood |-> <<>>, energy |-> <<>>, pain |-> <<>>,
             anxiety |-> <<>>, fatigue |-> <<>>, count |-> 0]

\* if entry.<metric> is not None: daily_data[date_key][name].append(...)
AppendPresent(values, v) == IF v # None THEN Append(values, v) ELSE values

AddToDay(day, e) ==
    [mood |-> AppendPresent(day.mood, e.mood_overall),
     energy |-> AppendPresent(day.energy, e.energy_level),
     pain |-> AppendPresent(day.pain, e.pain_level),
     anxiety |-> AppendPresent(day.anxiety, e.anxiety_level),
     fatigue |-> AppendPresent(day.fatigue, e.fatigue_level),
     count |-> day.count + 1]

RECURSIVE GroupByDate(_, _)
GroupByDate(rows, daily_data) ==
    IF rows = <<>> THEN daily_data
    ELSE LET entry == Head(rows)
             date_key == entry.date
             day == IF date_key \in DOMAIN daily_data THEN daily_data[date_key] ELSE EmptyDay
         IN GroupByDate(Tail(rows),
                [d \in DOMAIN daily_data \cup {date_key} |->
                    IF d = date_key THEN AddToDay(day, entry) ELSE daily_data[d]])

\* sum(values) / len(values) if values else None
DailyAverageOfFirst(values) ==
    IF values # <<>> THEN TrueDiv(values[1], 1) ELSE NoData
DailyAverageZeroFilled(values) ==
    IF values # <<>> THEN TrueDiv(Sum(values), Len(values)) ELSE <<0, 1>>
DailyAverage(values) ==
    IF values # <<>> THEN TrueDiv(Sum(values), Len(values)) ELSE NoData

DataSet(i, labels, daily_data) ==
    [label |-> ChartLabels[i],
     data |-> [j \in 1..Len(labels) |-> DailyAverage(daily_data[labels[j]][ChartMetrics[i]])]]

RECURSIVE DataSets(_, _, _, _)
DataSets(i, metric, labels, daily_data) ==
    IF i > Len(ChartMetrics) THEN <<>>
    ELSE (IF metric = "all" \/ metric = ChartMetrics[i]
          THEN <<DataSet(i, labels, daily_data)>> ELSE <<>>)
         \o DataSets(i + 1, metric, labels, daily_data)

DailyData(rows) == GroupByDate(rows, <<>>)

get_chart_data(rows, metric) ==
    IF rows = <<>> THEN [labels |-> <<>>, datasets |-> <<>>]
    ELSE LET daily_data == DailyData(rows)
             labels == Sorted(DOMAIN daily_data)
         IN [labels |-> labels,
             datasets |-> DataSets(1, metric, labels, daily_data),
             total_entries |-> Len(rows)]

\* ==================================================== _build_pattern_context
\* [e.get(k) for e in entries_data if e.get(k) is not None]
TrendValues(es, k) == SelectSeq(Values(es, k), LAMBDA v : v # None)

LastOf(s) == s[Len(s)]

TrendFromPrevious(values) ==
    IF LastOf(values) > values[IF Len(values) > 1 THEN Len(values) - 1 ELSE 1] THEN "increasing"
    ELSE IF LastOf(values) < values[IF Len(values) > 1 THEN Len(values) - 1 ELSE 1] THEN "decreasing"
    ELSE "stable"
Trend(values) ==
    IF LastOf(values) > values[1] THEN "increasing"
    ELSE IF LastOf(values) < values[1] THEN "decreasing"
    ELSE "stable"

\* values[-3:]
LastThree(values) == SubSeq(values, IF Len(values) > 3 THEN Len(values) - 2 ELSE 1, Len(values))

\* if values: context_parts.append(f"<Metric> trend: {trend} (recent: {values[-3:]})")
TrendLineAlways(name, values) ==
    <<[line |-> name,
       trend |-> IF values = <<>> THEN "stable" ELSE Trend(values),
       recent |-> LastThree(values)]>>
TrendLine(name, values) ==
    IF values # <<>>
    THEN <<[line |-> name, trend |-> Trend(values), recent |-> LastThree(values)]>>
    ELSE <<>>

_build_pattern_context(es) ==
    IF es = <<>> THEN <<[line |-> "no_recent_entries"]>>
    ELSE <<[line |-> "header", n |-> Len(es)]>>
         \o TrendLine("mood_trend", TrendValues(es, "mood_overall"))
         \o TrendLine("energy_trend", TrendValues(es, "energy_level"))
         \o TrendLine("pain_trend", TrendValues(es, "pain_level"))

\* ============================================================ OpenAIService
\* if x: for a number or a text (None, 0 and the empty text are falsy)
Truthy(v) == v # None /\ v # 0
\* if x: for sleep_quality and entry_type (the stored names are not empty)
TruthyStr(v) == v # NoneStr

Opt(cond, line) == IF cond THEN <<line>> ELSE <<>>

\* text[:n], a text being its number of characters
Cut(chars, n) == IF chars > n THEN n ELSE chars

\* entries_data[-n:] if len(entries_data) >= n else entries_data
LastN(es, n) == IF Len(es) >= n THEN SubSeq(es, Len(es) - n + 1, Len(es)) ELSE es

\* entries_data[:n]
FirstN(es, n) == IF Len(es) > n THEN SubSeq(es, 1, n) ELSE es

Built(context) == [kind |-> "prompt", value |-> context]

Title == [morning |-> "Morning", evening |-> "Evening", unknown |-> "Unknown"]

TextLine(e, k) == Opt(Truthy(Get(e, k)), [line |-> k, chars |-> Get(e, k)])

RatingItem(e, name, k) == Opt(Truthy(Get(e, k)), <<name, Get(e, k)>>)

\* entry_type.title() on None is an AttributeError
_build_entry_context(e) ==
    LET entry_type == IF e.entry_type = AbsentStr THEN "unknown" ELSE e.entry_type
        mood_data == RatingItem(e, "Mood", "mood_overall")
                     \o RatingItem(e, "Energy", "energy_level")
                     \o RatingItem(e, "Anxiety", "anxiety_level")
                     \o RatingItem(e, "Pain", "pain_level")
                     \o RatingItem(e, "Fatigue", "fatigue_level")
    IN IF entry_type = NoneStr THEN Raised("AttributeError")
       ELSE Built(
            <<[line |-> "entry_type", value |-> Title[entry_type]]>>
            \o (IF entry_type = "morning"
                THEN TextLine(e, "morning_feeling") \o TextLine(e, "morning_hopes")
                     \o TextLine(e, "morning_symptoms")
                ELSE IF entry_type = "evening"
                THEN TextLine(e, "evening_day_review") \o TextLine(e, "evening_gratitude")
                     \o TextLine(e, "evening_symptoms")
                ELSE <<>>)
            \o Opt(mood_data # <<>>, [line |-> "ratings", items |-> mood_data])
            \o Opt(TruthyStr(GetStr(e, "sleep_quality")),
                   [line |-> "sleep_quality", value |-> GetStr(e, "sleep_quality")])
            \o TextLine(e, "additional_notes"))

\* f"{x:.1f}": the float x = num/den in tenths, ties to even (a tie needs
\* den = 4 here, where the float is exact)
Format1f(x) ==
    LET q == (10 * x[1]) \div x[2]
        r == (10 * x[1]) % x[2]
    IN IF 2 * r < x[2] THEN q
       ELSE IF 2 * r > x[2] THEN q + 1
       ELSE IF q % 2 = 0 THEN q ELSE q + 1

\* [e.get(k) for e in entries_data if e.get(k)]
WeeklyValues(es, k) == SelectSeq(Values(es, k), Truthy)

WeeklyAverage(name, values) ==
    Opt(values # <<>>,
        [line |-> name, tenths |-> IF values # <<>>
                                   THEN Format1f(TrueDiv(Sum(values), Len(values))) ELSE 0])

Highlight(e) ==
    IF Truthy(Get(e, "evening_gratitude"))
    THEN <<[line |-> "gratitude", chars |-> Cut(e.evening_gratitude, 100)]>>
    ELSE IF Truthy(Get(e, "morning_hopes"))
    THEN <<[line |-> "hope", chars |-> Cut(e.morning_hopes, 100)]>>
    ELSE <<>>

RECURSIVE Flatten(_)
Flatten(ss) == IF ss = <<>> THEN <<>> ELSE Head(ss) \o Flatten(Tail(ss))

_build_weekly_context(es) ==
    LET highlights == Flatten([i \in 1..Len(FirstN(es, 3)) |-> Highlight(FirstN(es, 3)[i])])
    IN <<[line |-> "count", n |-> Len(es)]>>
       \o WeeklyAverage("average_mood", WeeklyValues(es, "mood_overall"))
       \o WeeklyAverage("average_energy", WeeklyValues(es, "energy_level"))
       \o WeeklyAverage("average_pain", WeeklyValues(es, "pain_level"))
       \o (IF highlights # <<>> THEN <<[line |-> "key_moments"]>> \o highlights ELSE <<>>)

LowMoodDefault == 10
CrisisPainDefault == 0
CrisisAnxietyDefault == 0

CrisisMoodOf(e) == GetDefault(e, "mood_overall", LowMoodDefault)
CrisisPainOf(e) == GetDefault(e, "pain_level", CrisisPainDefault)
CrisisAnxietyOf(e) == GetDefault(e, "anxiety_level", CrisisAnxietyDefault)

RecentNote(e) ==
    Opt(Truthy(Get(e, "additional_notes")),
        [line |-> "recent_note", chars |-> Cut(e.additional_notes, 150)])

_build_crisis_context(es) ==
    IF es = <<>> THEN Built(<<[line |-> "no_recent_entries"]>>)
    ELSE IF (\E i \in 1..Len(es) : Unorderable(CrisisMoodOf(es[i]))) THEN Raised("TypeError")
    ELSE IF (\E i \in 1..Len(es) : Unorderable(CrisisPainOf(es[i]))) THEN Raised("TypeError")
    ELSE IF (\E i \in 1..Len(es) : Unorderable(CrisisAnxietyOf(es[i]))) THEN Raised("TypeError")
    ELSE Built(
         <<[line |-> "header", n |-> Len(es)],
           [line |-> "low_mood", count |-> Len(SelectSeq(es, LAMBDA e : CrisisMoodOf(e) <= 3)), n |-> Len(es)],
           [line |-> "high_pain", count |-> Len(SelectSeq(es, LAMBDA e : CrisisPainOf(e) >= 7)), n |-> Len(es)],
           [line |-> "high_anxiety", count |-> Len(SelectSeq(es, LAMBDA e : CrisisAnxietyOf(e) >= 7)),
            n |-> Len(es)]>>
         \o Flatten([i \in 1..Len(LastN(es, 2)) |-> RecentNote(LastN(es, 2)[i])]))

\* current_symptoms.get(k, 'Not specified') for the five keys
SymptomKeys == <<"mood", "energy", "pain", "anxiety", "fatigue">>
NotSpecified == -3
SymptomsPool == {[k \in {"mood", "energy", "pain", "anxiety", "fatigue"} |-> v] : v \in {Absent, 4}}

CurrentStatus(current_symptoms) ==
    [i \in 1..Len(SymptomKeys) |->
        [line |-> SymptomKeys[i],
         value |-> GetDefault(current_symptoms, SymptomKeys[i], NotSpecified)]]

\* ---- the completion service and the text it returns
\* A response text is a sequence of tokens: white space, a JSON object with
\* the fields the prompt asks for, another JSON object, a JSON array, prose.
Tokens == {"ws", "obj", "other_obj", "arr", "word"}
JsonValues == {"obj", "other_obj", "arr"}
Texts == UNION {[1..n -> Tokens] : n \in 0..MaxTextLen}

Behaviours ==
    {[kind |-> "error", exc |-> x] : x \in {"APIConnectionError", "APITimeoutError"}}
    \cup {[kind |-> "response", choices |-> 0]}
    \cup {[kind |-> "response", choices |-> 1, content |-> PyNone]}
    \cup {[kind |-> "response", choices |-> 1, content |-> PyStr(t)] : t \in Texts}

\* a response whose one choice has the text t as its message content
TextResponse(t) == [kind |-> "response", choices |-> 1, content |-> PyStr(t)]

\* str.strip()
RECURSIVE LStrip(_)
LStrip(t) == IF t # <<>> /\ Head(t) = "ws" THEN LStrip(Tail(t)) ELSE t

RECURSIVE RStrip(_)
RStrip(t) == IF t # <<>> /\ t[Len(t)] = "ws" THEN RStrip(SubSeq(t, 1, Len(t) - 1)) ELSE t

Strip(t) == RStrip(LStrip(t))

\* json.loads(text): the value of a text that is one JSON value, else
\* JSONDecodeError (empty text, prose, extra data after the value)
JsonLoads(t) ==
    IF Len(t) = 1 /\ t[1] \in JsonValues
    THEN Returned([type |-> "json", value |-> t[1]])
    ELSE Raised("JSONDecodeError")

\* except Exception as e: ... return None
OuterCatchesApiErrorsOnly(exc) == exc \in {"APIConnectionError", "APITimeoutError"}
OuterCatches(exc) ==
    exc \in {"TypeError", "AttributeError", "IndexError", "JSONDecodeError",
             "APIConnectionError", "APITimeoutError"}

\* except json.JSONDecodeError: return <the fallback payload>
InnerCatchesNothing(exc) == FALSE
InnerCatches(exc) == exc = "JSONDecodeError"

Handled(exc) == IF OuterCatches(exc) THEN Returned(PyNone) ELSE Raised(exc)

\* create() is called once, outside any loop: whatever it gives, response or
\* exception, the operation goes on to its return
RetriesOnFailure(b) == b.kind = "error"
Retries(b) == FALSE

\* if not self.enabled: return None
NeverShortCircuits(en) == FALSE
ShortCircuits(en) == ~en

TextOps == {"generate_entry_summary", "generate_insights_and_encouragement",
            "generate_weekly_reflection"}
JsonOps == {"generate_predictive_insights", "generate_coping_strategies",
            "detect_crisis_patterns", "generate_weekly_coaching"}
GatewayOps == TextOps \cup JsonOps

\* the payload of the except json.JSONDecodeError branch
Fallback(name, text) ==
    CASE name = "generate_predictive_insights" ->
            [prediction |-> PyStr(text), confidence |-> "medium", suggestions |-> <<>>,
             warning_signs |-> <<>>, positive_trends |-> <<>>]
      [] name = "generate_coping_strategies" ->
            [immediate_strategies |-> <<"Take gentle, deep breaths",
                                        "Rest in a comfortable position",
                                        "Reach out to a trusted friend">>]
      [] name = "detect_crisis_patterns" ->
            [risk_level |-> "none", concerning_patterns |-> <<>>,
             supportive_message |-> "You're doing great by tracking your health."]
      [] name = "generate_weekly_coaching" ->
            [weekly_summary |-> "You've shown incredible strength this week.",
             achievements |-> <<"Continued tracking your health">>,
             motivational_message |-> "Keep being gentle with yourself."]

\* response.choices[0].message.content.strip(): IndexError without a choice,
\* AttributeError on a None content
Content(b) ==
    IF b.kind = "error" THEN Raised(b.exc)
    ELSE IF b.choices = 0 THEN Raised("IndexError")
    ELSE IF b.content = PyNone THEN Raised("AttributeError")
    ELSE Returned(Strip(b.content.text))

\* From the return of client.chat.completions.create to the operation's return.
Finish(name, b) ==
    LET content == Content(b) IN
    IF content.kind = "raise" THEN Handled(content.exc)
    ELSE IF name \in TextOps THEN Returned(PyStr(content.value))
    ELSE LET decoded == JsonLoads(content.value) IN
         IF decoded.kind = "return" THEN decoded
         ELSE IF InnerCatches(decoded.exc) THEN Returned(Fallback(name, content.value))
         ELSE Handled(decoded.exc)

\* ---- the JSON format each prompt asks for, and what an endpoint answers
\* The keys of the JSON object the prompt of the operation spells out.
Schema(name) ==
    CASE name = "generate_predictive_insights" ->
            {"prediction", "confidence", "suggestions", "warning_signs", "positive_trends"}
      [] name = "generate_coping_strategies" ->
            {"immediate_strategies", "energy_management", "pain_relief", "mood_support",
             "self_care", "when_to_seek_help"}
      [] name = "detect_crisis_patterns" ->
            {"risk_level", "concerning_patterns", "supportive_message",
             "gentle_suggestions", "resources", "check_in_frequency"}
      [] name = "generate_weekly_coaching" ->
            {"weekly_summary", "achievements", "areas_for_growth", "next_week_focus",
             "specific_goals", "motivational_message", "self_care_prescription"}

\* the right-hand side of  <gateway result> or {...}  in the endpoint
EndpointDefault(name) ==
    CASE name = "generate_predictive_insights" ->
            [prediction |-> "Unable to generate insights at this time."]
      [] name = "generate_coping_strategies" ->
            [immediate_strategies |-> <<"Take a moment to breathe deeply">>]
      [] name = "detect_crisis_patterns" ->
            [risk_level |-> "none",
             supportive_message |-> "You're doing well by tracking your health."]
      [] name = "generate_weekly_coaching" ->
            [weekly_summary |->
                "You've shown strength by continuing to track your health this week."]

\* insights or {...}: None is replaced, a payload is passed on
EndpointPayload(name, value) == IF value = PyNone THEN EndpointDefault(name) ELSE value

\* ------------------------------------------------------------------ state
Init ==
    /\ entries = <<>>
    /\ op = "none"
    /\ arg = "none"
    /\ result = NoResult
    /\ enabled = FALSE
    /\ pc = "idle"
    /\ calls = 0
    /\ response = NoResponse
    /\ prompt = NoPrompt
    /\ table = <<>>
    /\ threads = NoThreads
    /\ launcher = NotLaunched

GatewayIdle == UNCHANGED <<enabled, pc, calls, response, prompt, table, threads, launcher>>

\* The caller extends the entry list it will hand to the service functions.
AddEntry ==
    /\ Len(entries) < MaxEntries
    /\ \E e \in RowPool \cup SparsePool :
          /\ IsRows(Append(entries, e)) \/ IsSparse(Append(entries, e))
          /\ entries' = Append(entries, e)
    /\ op' = "none"
    /\ arg' = "none"
    /\ result' = NoResult
    /\ GatewayIdle

\* The entry dicts as a call leaves them: every access is a dict.get.
AfterStatistics(e) ==
    AfterGet(AfterGet(AfterGet(AfterGet(AfterGet(e,
        "mood_overall", None), "energy_level", None), "pain_level", None),
        "anxiety_level", None), "fatigue_level", None)

AfterPatterns(e) ==
    AfterGet(AfterGet(AfterGet(AfterGet(e,
        "pain_level", HighPainDefault), "sleep_quality", NoneStr),
        "energy_level", LowEnergyDefault), "anxiety_level", HighAnxietyDefault)

CalculateStatistics ==
    /\ op' = "_calculate_statistics"
    /\ arg' = "none"
    /\ result' = Returned(_calculate_statistics(entries))
    /\ entries' = [i \in 1..Len(entries) |-> AfterStatistics(entries[i])]
    /\ GatewayIdle

IdentifyMedicalPatterns ==
    /\ op' = "_identify_medical_patterns"
    /\ arg' = "none"
    /\ result' = _identify_medical_patterns(entries)
    /\ entries' = [i \in 1..Len(entries) |-> AfterPatterns(entries[i])]
    /\ GatewayIdle

\* The endpoint reads rows of the table: every column is there.
GetChartData ==
    /\ IsRows(entries)
    /\ \E metric \in ChartParams :
          /\ arg' = metric
          /\ result' = Returned(get_chart_data(entries, metric))
    /\ op' = "get_chart_data"
    /\ UNCHANGED entries
    /\ GatewayIdle

BuildPatternContext ==
    /\ op' = "_build_pattern_context"
    /\ arg' = "none"
    /\ result' = Returned(_build_pattern_context(entries))
    /\ UNCHANGED entries
    /\ GatewayIdle

Next ==
    \/ AddEntry
    \/ CalculateStatistics
    \/ IdentifyMedicalPatterns
    \/ GetChartData
    \/ BuildPatternContext

Spec == Init /\ [][Next]_vars

\* The chart endpoint alone, over windows of table rows.
ChartNext ==
    \/ AddEntry /\ IsRows(entries')
    \/ GetChartData

ChartSpec == Init /\ [][ChartNext]_vars

\* The two functions of the doctor summary alone.
StatisticsNext ==
    \/ AddEntry
    \/ CalculateStatistics
    \/ IdentifyMedicalPatterns

StatisticsSpec == Init /\ [][StatisticsNext]_vars

\* ------------------------------------------------------- gateway operations
\* OpenAIService(): the key decides the mode once, at construction.
GatewayInit ==
    /\ entries = <<>>
    /\ op = "none"
    /\ arg = "none"
    /\ result = NoResult
    /\ enabled \in BOOLEAN
    /\ pc = "idle"
    /\ calls = 0
    /\ response = NoResponse
    /\ prompt = NoPrompt
    /\ table = <<>>
    /\ threads = NoThreads
    /\ launcher = NotLaunched

AddWindowEntry ==
    /\ pc = "idle"
    /\ Len(entries) < MaxGatewayEntries
    /\ \E e \in GatewayPool :
          /\ IsRows(Append(entries, e)) \/ IsSparse(Append(entries, e))
          /\ entries' = Append(entries, e)
    /\ op' = "none"
    /\ arg' = "none"
    /\ result' = NoResult
    /\ calls' = 0
    /\ response' = NoResponse
    /\ prompt' = NoPrompt
    /\ UNCHANGED <<enabled, pc, table, threads, launcher>>

\* An operation from its entry to its return, or to the point where it waits
\* for client.chat.completions.create.  prep is what the code before the call
\* yields: a prompt context, an exception, or an early return.
Begin(name, a, prep) ==
    /\ pc = "idle"
    /\ op' = name
    /\ arg' = a
    /\ response' = NoResponse
    /\ UNCHANGED <<entries, enabled, table, threads, launcher>>
    /\ IF ShortCircuits(enabled)
       THEN /\ result' = Returned(PyNone)
            /\ calls' = 0 /\ pc' = "idle" /\ prompt' = NoPrompt
       ELSE IF prep.kind = "raise"
       THEN /\ result' = Handled(prep.exc)
            /\ calls' = 0 /\ pc' = "idle" /\ prompt' = NoPrompt
       ELSE IF prep.kind = "return"
       THEN /\ result' = prep
            /\ calls' = 0 /\ pc' = "idle" /\ prompt' = NoPrompt
       ELSE /\ calls' = 1
            /\ prompt' = prep.value
            /\ IF enabled
               THEN result' = NoResult /\ pc' = "awaiting"
               \* self.client is None: None.chat is an AttributeError
               ELSE result' = Handled("AttributeError") /\ pc' = "idle"

generate_entry_summary ==
    \E i \in 1..Len(entries) :
        Begin("generate_entry_summary", entries[i], _build_entry_context(entries[i]))

generate_insights_and_encouragement ==
    \E i \in 1..Len(entries) :
        Begin("generate_insights_and_encouragement", entries[i], _build_entry_context(entries[i]))

generate_weekly_reflection ==
    Begin("generate_weekly_reflection", "entries",
          IF entries = <<>> THEN Returned(PyNone) ELSE Built(_build_weekly_context(entries)))

generate_predictive_insights ==
    Begin("generate_predictive_insights", "entries",
          Built(_build_pattern_context(LastN(entries, 7))))

generate_coping_strategies ==
    \E current_symptoms \in SymptomsPool :
        Begin("generate_coping_strategies", current_symptoms,
              Built(CurrentStatus(current_symptoms)))

detect_crisis_patterns ==
    Begin("detect_crisis_patterns", "entries", _build_crisis_context(LastN(entries, 5)))

\* goals: None (the default) and the empty list are <<>>; both are falsy
GoalsPool == {<<>>, <<"pacing">>}

generate_weekly_coaching ==
    \E goals \in GoalsPool :
        Begin("generate_weekly_coaching", goals,
              Built(_build_weekly_context(LastN(entries, 7))
                    \o <<[line |-> IF goals # <<>> THEN "user_goals" ELSE "no_goals",
                          goals |-> goals]>>))

\* The completion service answers, fails or times out, and the operation
\* that waits for it runs to its return.
Complete ==
    /\ pc = "awaiting"
    /\ \E b \in Behaviours :
          /\ response' = b
          /\ IF Retries(b)
             THEN /\ result' = NoResult
                  /\ pc' = "awaiting"
                  /\ calls' = calls + 1
             ELSE /\ result' = Finish(op, b)
                  /\ pc' = "idle"
                  /\ calls' = calls
    /\ UNCHANGED <<entries, op, arg, enabled, prompt, table, threads, launcher>>

GatewayNext ==
    \/ AddWindowEntry
    \/ generate_entry_summary
    \/ generate_insights_and_encouragement
    \/ generate_weekly_reflection
    \/ generate_predictive_insights
    \/ generate_coping_strategies
    \/ detect_crisis_patterns
    \/ generate_weekly_coaching
    \/ Complete

GatewaySpec == GatewayInit /\ [][GatewayNext]_vars

\* ============================================================== entries API
\* The journal_entries table is the sequence table, in the order of creation:
\* the id of a row is its position and its timestamp is its rank in time.
\* updated_at counts the times onupdate=func.now() refreshed it (0: it still
\* is the creation default).
PainLevelDefault == 0
FatigueLevelDefault == 0

\* entry_type: str and date: str are required fields of JournalEntryCreate
ValidBody(body) == body.entry_type \notin {NoneStr, AbsentStr}

\* JournalEntryCreate(...).dict(): a field the body leaves out has its default
JournalEntryBase(body) ==
    [entry_type |-> body.entry_type,
     date |-> body.date,
     morning_feeling |-> Get(body, "morning_feeling"),
     morning_hopes |-> Get(body, "morning_hopes"),
     morning_symptoms |-> Get(body, "morning_symptoms"),
     evening_day_review |-> Get(body, "evening_day_review"),
     evening_gratitude |-> Get(body, "evening_gratitude"),
     evening_symptoms |-> Get(body, "evening_symptoms"),
     mood_overall |-> Get(body, "mood_overall"),
     energy_level |-> Get(body, "energy_level"),
     anxiety_level |-> Get(body, "anxiety_level"),
     pain_level |-> GetDefault(body, "pain_level", PainLevelDefault),
     fatigue_level |-> GetDefault(body, "fatigue_level", FatigueLevelDefault),
     sleep_quality |-> GetStr(body, "sleep_quality"),
     additional_notes |-> Get(body, "additional_notes")]

\* JournalEntry(**entry.dict()) after db.add, db.commit, db.refresh
JournalEntry(id, e) ==
    [id |-> id, timestamp |-> id, created_at |-> id, updated_at |-> 0,
     ai_summary |-> PyNone, ai_insights |-> PyNone,
     entry_type |-> e.entry_type, date |-> e.date,
     morning_feeling |-> e.morning_feeling, morning_hopes |-> e.morning_hopes,
     morning_symptoms |-> e.morning_symptoms,
     evening_day_review |-> e.evening_day_review,
     evening_gratitude |-> e.evening_gratitude,
     evening_symptoms |-> e.evening_symptoms,
     mood_overall |-> e.mood_overall, energy_level |-> e.energy_level,
     anxiety_level |-> e.anxiety_level, pain_level |-> e.pain_level,
     fatigue_level |-> e.fatigue_level, sleep_quality |-> e.sleep_quality,
     additional_notes |-> e.additional_notes]

\* the dict an endpoint builds from a row for the services
EntryData(row) ==
    [entry_type |-> row.entry_type, date |-> row.date,
     morning_feeling |-> row.morning_feeling, morning_hopes |-> row.morning_hopes,
     morning_symptoms |-> row.morning_symptoms,
     evening_day_review |-> row.evening_day_review,
     evening_gratitude |-> row.evening_gratitude,
     evening_symptoms |-> row.evening_symptoms,
     mood_overall |-> row.mood_overall, energy_level |-> row.energy_level,
     anxiety_level |-> row.anxiety_level, pain_level |-> row.pain_level,
     fatigue_level |-> row.fatigue_level, sleep_quality |-> row.sleep_quality,
     additional_notes |-> row.additional_notes]

HTTPException(status_code) == [type |-> "HTTPException", status_code |-> status_code]

\* order_by(JournalEntry.timestamp.desc())
Reverse(s) == [i \in 1..Len(s) |-> s[Len(s) + 1 - i]]

\* JournalEntry.timestamp >= datetime.now() - timedelta(days=days): the rows
\* were created earlier on the day of the request, so a row is in the window
\* exactly when days is at least 1.
InWindow(row, days) == days >= 1

Window(rows, days) == SelectSeq(rows, LAMBDA row : InWindow(row, days))

\* ------------------------------------------------------- the PDF report
\* 'N/A' where a number or a name is printed
NotAvailable == -4
NotAvailableStr == "N/A"
NotAvailableCell == [text |-> "N/A"]

\* if x: for a float (None and 0.0 are falsy)
FloatTruthy(x) == x # NoData /\ x[1] # 0

\* f"{avg:.1f}/10" if avg else 'N/A'
AverageCell(avg) == IF FloatTruthy(avg) THEN [tenths |-> Format1f(avg)] ELSE NotAvailableCell

\* f"{range}" if range else 'N/A': a range is a non-empty string or None
RangeCell(range) == IF range # NoData THEN [range |-> range] ELSE NotAvailableCell

EntryTypeCount(es, type) == Len(SelectSeq(es, LAMBDA e : GetStr(e, "entry_type") = type))

_create_summary_section(es) ==
    IF es = <<>> THEN <<[line |-> "no_entries"]>>
    ELSE LET stats == _calculate_statistics(es)
         IN <<[line |-> "Mood Level", average |-> AverageCell(stats.avg_mood),
               range |-> RangeCell(stats.mood_range)],
              [line |-> "Energy Level", average |-> AverageCell(stats.avg_energy),
               range |-> RangeCell(stats.energy_range)],
              [line |-> "Pain Level", average |-> AverageCell(stats.avg_pain),
               range |-> RangeCell(stats.pain_range)],
              [line |-> "Anxiety Level", average |-> AverageCell(stats.avg_anxiety),
               range |-> RangeCell(stats.anxiety_range)],
              [line |-> "Entry Types", morning |-> EntryTypeCount(es, "morning"),
               evening |-> EntryTypeCount(es, "evening")]>>

\* entry.get('entry_type', 'Unknown').title()
TypeTitle(e) ==
    IF e.entry_type = NoneStr THEN Raised("AttributeError")
    ELSE Returned(Title[IF e.entry_type = AbsentStr THEN "unknown" ELSE e.entry_type])

_format_single_entry(e) ==
    LET ratings == RatingItem(e, "Mood", "mood_overall")
                   \o RatingItem(e, "Energy", "energy_level")
                   \o RatingItem(e, "Anxiety", "anxiety_level")
                   \o RatingItem(e, "Pain", "pain_level")
                   \o RatingItem(e, "Fatigue", "fatigue_level")
    IN IF TypeTitle(e).kind = "raise" THEN TypeTitle(e)
       ELSE Returned(
            <<[line |-> "header", date |-> e.date, value |-> TypeTitle(e).value]>>
            \o (IF GetStr(e, "entry_type") = "morning"
                THEN TextLine(e, "morning_feeling") \o TextLine(e, "morning_hopes")
                     \o TextLine(e, "morning_symptoms")
                ELSE IF GetStr(e, "entry_type") = "evening"
                THEN TextLine(e, "evening_day_review") \o TextLine(e, "evening_gratitude")
                     \o TextLine(e, "evening_symptoms")
                ELSE <<>>)
            \o Opt(ratings # <<>>, [line |-> "ratings", items |-> ratings])
            \o Opt(TruthyStr(GetStr(e, "sleep_quality")),
                   [line |-> "sleep_quality", value |-> GetStr(e, "sleep_quality")])
            \o TextLine(e, "additional_notes"))

_create_entries_section(es) ==
    IF \E i \in 1..Len(es) : _format_single_entry(es[i]).kind = "raise"
    THEN Raised("AttributeError")
    ELSE Returned(Flatten([i \in 1..Len(es) |-> _format_single_entry(es[i]).value]))

\* max(sleep_counts, key=sleep_counts.get): the first of the most frequent
_analyze_sleep_patterns(es) ==
    LET sleep_values == SelectSeq([i \in 1..Len(es) |-> GetStr(es[i], "sleep_quality")],
                                  TruthyStr)
        n == Len(sleep_values)
        CountOf(v) == Len(SelectSeq(sleep_values, LAMBDA x : x = v))
        FirstAt(v) == CHOOSE i \in 1..n :
                          sleep_values[i] = v /\ \A j \in 1..(i - 1) : sleep_values[j] # v
        most_common == CHOOSE v \in {sleep_values[i] : i \in 1..n} :
                          \A w \in {sleep_values[i] : i \in 1..n} :
                              \/ CountOf(v) > CountOf(w)
                              \/ CountOf(v) = CountOf(w) /\ FirstAt(v) <= FirstAt(w)
    IN IF n = 0 THEN [text |-> "No sleep data recorded"]
       ELSE [most_common |-> most_common, count |-> CountOf(most_common), n |-> n]

\* f"{avg:.1f}" with avg None is a TypeError
FormatAverage(avg) ==
    IF avg = NoData THEN Raised("TypeError") ELSE Returned([tenths |-> Format1f(avg)])

RecentEntryLine(e) ==
    [line |-> "recent_entry", date |-> e.date, type |-> TypeTitle(e).value,
     pain |-> GetDefault(e, "pain_level", NotAvailable),
     fatigue |-> GetDefault(e, "fatigue_level", NotAvailable),
     sleep |-> IF e.sleep_quality = AbsentStr THEN NotAvailableStr ELSE e.sleep_quality,
     mood |-> GetDefault(e, "mood_overall", NotAvailable)]

_create_medical_summary(es) ==
    LET stats == _calculate_statistics(es)
        pain == FormatAverage(stats.avg_pain)
        fatigue == FormatAverage(stats.avg_fatigue)
        mood == FormatAverage(stats.avg_mood)
        energy == FormatAverage(stats.avg_energy)
        patterns == _identify_medical_patterns(es)
        recent_entries == FirstN(es, 7)
    IN IF \E f \in {pain, fatigue, mood, energy} : f.kind = "raise" THEN Raised("TypeError")
       ELSE IF patterns.kind = "raise" THEN patterns
       ELSE IF \E i \in 1..Len(recent_entries) : TypeTitle(recent_entries[i]).kind = "raise"
       THEN Raised("AttributeError")
       ELSE Returned(
            <<[line |-> "Pain Levels", average |-> pain.value, range |-> stats.pain_range],
              [line |-> "Fatigue Levels", average |-> fatigue.value,
               range |-> stats.fatigue_range],
              [line |-> "Sleep Quality", sleep |-> _analyze_sleep_patterns(es)],
              [line |-> "Mood Tracking", average |-> mood.value, range |-> stats.mood_range],
              [line |-> "Energy Levels", average |-> energy.value,
               range |-> stats.energy_range],
              [line |-> "patterns", patterns |-> patterns.value]>>
            \o [i \in 1..Len(recent_entries) |-> RecentEntryLine(recent_entries[i])])

\* dates.sort(); one date, or f"{dates[0]} to {dates[-1]}"
_get_date_range(es) ==
    LET dates == {es[i].date : i \in 1..Len(es)}
    IN [from |-> CHOOSE d \in dates : \A x \in dates : d <= x,
        to |-> CHOOSE d \in dates : \A x \in dates : d >= x]

ReportTypes == {"comprehensive", "doctor_summary"}

generate_pdf_report(es, report_type) ==
    LET sections ==
            IF report_type = "comprehensive"
            THEN IF _create_entries_section(es).kind = "raise"
                 THEN _create_entries_section(es)
                 ELSE Returned(_create_summary_section(es)
                               \o _create_entries_section(es).value)
            ELSE _create_medical_summary(es)
    IN IF sections.kind = "raise" THEN sections
       ELSE Returned([total_entries |-> Len(es),
                      date_range |-> IF es # <<>> THEN _get_date_range(es) ELSE NoData,
                      story |-> sections.value])

\* ---------------------------------------------------------- the endpoints
MaxRows == 2

Bodies == GatewayPool
EntryIds == {1, MaxRows + 1}
DaysPool == {-1, 30}
DateParams == {None} \cup Dates

\* The completion service as generate_ai_feedback meets it: a timeout, a
\* blank text, a text.
FeedbackBehaviours ==
    {[kind |-> "error", exc |-> "APITimeoutError"],
     TextResponse(<<"ws">>), TextResponse(<<"word">>)}

\* the service is met only by an operation that is called
Asked(called) == IF called THEN FeedbackBehaviours ELSE {NoResponse}

\* One gateway operation from its call to its return, the service behaving
\* as b.
Invoke(name, prep, b) ==
    IF ShortCircuits(enabled) THEN Returned(PyNone)
    ELSE IF prep.kind = "raise" THEN Handled(prep.exc)
    ELSE IF prep.kind = "return" THEN prep
    ELSE Finish(name, b)

\* if summary: for an Optional[str]
StoresAlways(v) == TRUE
Stores(v) == v # PyNone /\ v.text # <<>>

\* a request that carries no parameters
NoParameters == [parameters |-> "none"]

ApiInit ==
    /\ table = <<>>
    /\ threads = NoThreads
    /\ launcher = NotLaunched
    /\ entries = <<>>
    /\ op = "none"
    /\ arg = NoParameters
    /\ result = NoResult
    /\ enabled \in BOOLEAN
    /\ pc = "idle"
    /\ calls = 0
    /\ response = NoResponse
    /\ prompt = NoPrompt

ApiFrame == UNCHANGED <<entries, enabled, pc, calls, response, prompt, threads, launcher>>

create_entry ==
    /\ Len(table) < MaxRows
    /\ op' = "create_entry"
    /\ \E body \in Bodies :
          /\ arg' = body
          /\ IF ValidBody(body)
             THEN LET db_entry == JournalEntry(Len(table) + 1, JournalEntryBase(body))
                  IN /\ table' = Append(table, db_entry)
                     /\ result' = Returned(db_entry)
             ELSE /\ table' = table
                  /\ result' = Raised("RequestValidationError")
    /\ ApiFrame

get_entries ==
    /\ op' = "get_entries"
    /\ \E date_from \in DateParams, date_to \in DateParams :
          LET matches(row) == /\ Truthy(date_from) => row.date >= date_from
                              /\ Truthy(date_to) => row.date <= date_to
          IN /\ arg' = [date_from |-> date_from, date_to |-> date_to]
             /\ result' = Returned(FirstN(SelectSeq(Reverse(table), matches), 100))
    /\ UNCHANGED table
    /\ ApiFrame

\* round(avg, 1) if avg else None
RecentAverage(values) ==
    IF FloatTruthy(StatAverage(values))
    THEN [tenths |-> Format1f(StatAverage(values))] ELSE PyNone

RowValues(rows, k) == SelectSeq([i \in 1..Len(rows) |-> rows[i][k]], LAMBDA v : v # None)

get_entries_summary ==
    /\ op' = "get_entries_summary"
    /\ LET recent_entries == FirstN(Reverse(table), 10)
       IN result' = Returned(
            [total_entries |-> Len(table),
             morning_entries |-> Len(SelectSeq(table, LAMBDA e : e.entry_type = "morning")),
             evening_entries |-> Len(SelectSeq(table, LAMBDA e : e.entry_type = "evening")),
             recent_averages |->
                [mood |-> RecentAverage(RowValues(recent_entries, "mood_overall")),
                 energy |-> RecentAverage(RowValues(recent_entries, "energy_level")),
                 pain |-> RecentAverage(RowValues(recent_entries, "pain_level"))]])
    /\ arg' = NoParameters
    /\ UNCHANGED table
    /\ ApiFrame

generate_ai_feedback ==
    /\ op' = "generate_ai_feedback"
    /\ \E entry_id \in EntryIds, generate_summary \in BOOLEAN, generate_insights \in BOOLEAN :
       \E b1 \in Asked(entry_id \in 1..Len(table) /\ generate_summary),
          b2 \in Asked(entry_id \in 1..Len(table) /\ generate_insights) :
          /\ arg' = [entry_id |-> entry_id, generate_summary |-> generate_summary,
                     generate_insights |-> generate_insights]
          /\ IF entry_id \notin 1..Len(table)
             THEN /\ table' = table
                  /\ result' = Raised(HTTPException(404))
             ELSE LET entry == table[entry_id]
                      entry_data == EntryData(entry)
                      context == _build_entry_context(entry_data)
                      summary == IF generate_summary
                                 THEN Invoke("generate_entry_summary", context, b1)
                                 ELSE Returned(PyNone)
                      insights == IF generate_insights
                                  THEN Invoke("generate_insights_and_encouragement", context, b2)
                                  ELSE Returned(PyNone)
                      ai_summary == IF generate_summary /\ Stores(summary.value)
                                    THEN summary.value ELSE entry.ai_summary
                      ai_insights == IF generate_insights /\ Stores(insights.value)
                                     THEN insights.value ELSE entry.ai_insights
                      dirty == ai_summary # entry.ai_summary \/ ai_insights # entry.ai_insights
                  IN IF summary.kind = "raise" \/ insights.kind = "raise"
                     THEN /\ table' = table
                          /\ result' = Raised(HTTPException(500))
                     ELSE /\ table' = [table EXCEPT ![entry_id] =
                                [entry EXCEPT !.ai_summary = ai_summary,
                                              !.ai_insights = ai_insights,
                                              !.updated_at = IF dirty THEN @ + 1 ELSE @]]
                          /\ result' = Returned([summary |-> summary.value,
                                                 insights |-> insights.value,
                                                 encouragement |-> PyNone])
    /\ ApiFrame

export_entries ==
    /\ op' = "export_entries"
    /\ \E report_type \in ReportTypes, days \in DaysPool :
          LET rows == Reverse(Window(table, days))
              entries_data == [i \in 1..Len(rows) |-> EntryData(rows[i])]
              pdf == generate_pdf_report(entries_data, report_type)
          IN /\ arg' = [report_type |-> report_type, days |-> days]
             /\ result' = IF rows = <<>> THEN Raised(HTTPException(404))
                          ELSE IF pdf.kind = "raise" THEN Raised(HTTPException(500))
                          ELSE pdf
    /\ UNCHANGED table
    /\ ApiFrame

get_trends ==
    /\ op' = "get_trends"
    /\ \E days \in DaysPool :
          LET rows == Window(table, days)
          IN /\ arg' = [days |-> days]
             /\ result' = IF rows = <<>>
                          THEN Returned([message |-> "No entries found for trend analysis"])
                          ELSE Returned(
                            [trends |->
                                [dates |-> [i \in 1..Len(rows) |-> rows[i].date],
                                 mood |-> [i \in 1..Len(rows) |-> rows[i].mood_overall],
                                 energy |-> [i \in 1..Len(rows) |-> rows[i].energy_level],
                                 pain |-> [i \in 1..Len(rows) |-> rows[i].pain_level],
                                 anxiety |-> [i \in 1..Len(rows) |-> rows[i].anxiety_level],
                                 fatigue |-> [i \in 1..Len(rows) |-> rows[i].fatigue_level]],
                             period_days |-> days,
                             total_entries |-> Len(rows)])
    /\ UNCHANGED table
    /\ ApiFrame

ApiNext ==
    \/ create_entry
    \/ get_entries
    \/ get_entries_summary
    \/ generate_ai_feedback
    \/ export_entries
    \/ get_trends

ApiSpec == ApiInit /\ [][ApiNext]_vars

\* ------------------------------------- the endpoints over the recent entries
\* In this specification entries is recent_entries, the list the gateway
\* operation analysed, and prompt the context it built from that list.
MaxRecentRows == 11

\* .limit(10)
RecentLimit == 10

\* Two request bodies that differ in mood, energy and notes; each reports the
\* ratings the crisis context compares.
RecentBodies ==
    {Entry(1, 3, TRUE), [Entry(1, 4, FALSE) EXCEPT !.entry_type = "evening"]}

\* the dict get_predictive_insights builds from a row
PredictiveEntryData(row) ==
    [entry_type |-> row.entry_type, date |-> row.date,
     mood_overall |-> row.mood_overall, energy_level |-> row.energy_level,
     pain_level |-> row.pain_level, anxiety_level |-> row.anxiety_level,
     fatigue_level |-> row.fatigue_level, additional_notes |-> row.additional_notes]

\* the dict crisis_pattern_check builds from a row
CrisisEntryData(row) ==
    [mood_overall |-> row.mood_overall, energy_level |-> row.energy_level,
     pain_level |-> row.pain_level, anxiety_level |-> row.anxiety_level,
     fatigue_level |-> row.fatigue_level, additional_notes |-> row.additional_notes,
     date |-> row.date]

\* create_entry, for the bodies of RecentBodies
create_recent_entry ==
    /\ Len(table) < MaxRecentRows
    /\ op' = "create_entry"
    /\ \E body \in RecentBodies :
          LET db_entry == JournalEntry(Len(table) + 1, JournalEntryBase(body))
          IN /\ arg' = body
             /\ table' = Append(table, db_entry)
             /\ result' = Returned(db_entry)
    /\ entries' = <<>>
    /\ prompt' = NoPrompt
    /\ calls' = 0
    /\ response' = NoResponse
    /\ UNCHANGED <<enabled, pc, threads, launcher>>

\* The endpoint, the gateway operation it calls and the completion service's
\* answer b, from the request to the response.
AnalyseRecent(name, payload, entries_data, recent_entries, prep, b) ==
    LET called == ~ShortCircuits(enabled) /\ prep.kind = "prompt"
        analysis == Invoke(name, prep, IF called THEN b ELSE NoResponse)
    IN /\ result' = IF analysis.kind = "raise"
                    THEN Raised(HTTPException(500))
                    ELSE Returned([payload |-> EndpointPayload(name, analysis.value),
                                   entries |-> Len(entries_data)])
       /\ entries' = IF ShortCircuits(enabled) THEN <<>> ELSE recent_entries
       /\ prompt' = IF called THEN prep.value ELSE NoPrompt
       /\ calls' = IF called THEN 1 ELSE 0
       /\ response' = IF called THEN b ELSE NoResponse

get_predictive_insights ==
    /\ op' = "get_predictive_insights"
    /\ \E days \in DaysPool, b \in FeedbackBehaviours \cup {TextResponse(<<"obj">>)} :
          LET rows == Reverse(Window(table, days))
              entries_data == [i \in 1..Len(rows) |-> PredictiveEntryData(rows[i])]
              recent_entries == LastN(entries_data, 7)
          IN /\ arg' = [days |-> days]
             /\ IF rows = <<>>
                THEN /\ result' = Returned([message |->
                          "Not enough data for predictive insights. Add more journal entries."])
                     /\ entries' = <<>>
                     /\ prompt' = NoPrompt
                     /\ calls' = 0
                     /\ response' = NoResponse
                ELSE AnalyseRecent("generate_predictive_insights", "insights", entries_data,
                                   recent_entries,
                                   Built(_build_pattern_context(recent_entries)), b)
    /\ UNCHANGED <<table, enabled, pc, threads, launcher>>

crisis_pattern_check ==
    /\ op' = "crisis_pattern_check"
    /\ arg' = NoParameters
    /\ \E b \in FeedbackBehaviours \cup {TextResponse(<<"obj">>)} :
          LET rows == FirstN(Reverse(table), RecentLimit)
              entries_data == [i \in 1..Len(rows) |-> CrisisEntryData(rows[i])]
              recent_entries == LastN(entries_data, 5)
          IN IF rows = <<>>
             THEN /\ result' = Returned([risk_level |-> "none",
                                         message |-> "No recent entries to analyze."])
                  /\ entries' = <<>>
                  /\ prompt' = NoPrompt
                  /\ calls' = 0
                  /\ response' = NoResponse
             ELSE AnalyseRecent("detect_crisis_patterns", "analysis", entries_data,
                                recent_entries, _build_crisis_context(recent_entries), b)
    /\ UNCHANGED <<table, enabled, pc, threads, launcher>>

RecentNext ==
    \/ create_recent_entry
    \/ get_predictive_insights
    \/ crisis_pattern_check

RecentSpec == ApiInit /\ [][RecentNext]_vars

\* ------------------------------------------------- concurrent invocations
\* Two request handlers call the module-level openai_service and
\* export_service at the same time.  threads[t] holds what is local to an
\* invocation (its arguments, the prompt, the response, the return value);
\* enabled stands for the fields of the service object (client, model,
\* enabled), which both invocations read.
Threads == {1, 2}

NotCalled ==
    [op |-> "none", entries |-> <<>>, pc |-> "idle", prompt |-> NoPrompt,
     response |-> NoResponse, result |-> NoResult]

\* the entry windows of the callers: one row each, as the endpoints build them
Windows == {<<e>> : e \in {g \in GatewayPool : IsRows(<<g>>)}}

WindowOps == {"generate_weekly_reflection", "generate_predictive_insights",
              "detect_crisis_patterns"}

\* what a gateway operation on an entry window does before it calls create
Prepared(name, es) ==
    CASE name = "generate_weekly_reflection" ->
            IF es = <<>> THEN Returned(PyNone) ELSE Built(_build_weekly_context(es))
      [] name = "generate_predictive_insights" -> Built(_build_pattern_context(LastN(es, 7)))
      [] name = "detect_crisis_patterns" -> _build_crisis_context(LastN(es, 5))

\* The fields of the service after an operation met the response b: no
\* operation assigns to self.client, self.model or self.enabled.
DisabledAfterError(en, b) == en /\ b.kind # "error"
FieldsAfter(en, b) == en

ConcurrentInit ==
    /\ entries = <<>>
    /\ op = "none"
    /\ arg = "none"
    /\ result = NoResult
    /\ enabled \in BOOLEAN
    /\ pc = "idle"
    /\ calls = 0
    /\ response = NoResponse
    /\ prompt = NoPrompt
    /\ table = <<>>
    /\ threads = [t \in Threads |-> NotCalled]
    /\ launcher = NotLaunched

ThreadFrame == UNCHANGED <<entries, op, arg, result, pc, calls, response, prompt, table, launcher>>

\* invocation t enters a gateway operation and runs to its return or to the
\* call of client.chat.completions.create
Call(t) ==
    /\ threads[t].pc = "idle"
    /\ \E name \in WindowOps, es \in Windows :
          LET prep == Prepared(name, es)
              waits == enabled /\ prep.kind = "prompt"
          IN threads' = [threads EXCEPT ![t] =
                [op |-> name, entries |-> es,
                 pc |-> IF waits THEN "awaiting" ELSE "idle",
                 prompt |-> IF waits THEN prep.value ELSE NoPrompt,
                 response |-> NoResponse,
                 result |-> IF waits THEN NoResult ELSE Invoke(name, prep, NoResponse)]]
    /\ enabled' = FieldsAfter(enabled, NoResponse)
    /\ ThreadFrame

\* the completion service answers invocation t, which runs to its return
Answer(t) ==
    /\ threads[t].pc = "awaiting"
    /\ \E b \in FeedbackBehaviours \cup {TextResponse(<<"obj">>)} :
          /\ threads' = [threads EXCEPT ![t] =
                [@ EXCEPT !.pc = "idle", !.response = b, !.result = Finish(threads[t].op, b)]]
          /\ enabled' = FieldsAfter(enabled, b)
    /\ ThreadFrame

\* invocation t computes the statistics of its window with export_service
Statistics(t) ==
    /\ threads[t].pc = "idle"
    /\ \E es \in Windows :
          threads' = [threads EXCEPT ![t] =
                [op |-> "_calculate_statistics", entries |-> es, pc |-> "idle",
                 prompt |-> NoPrompt, response |-> NoResponse,
                 result |-> Returned(_calculate_statistics(es))]]
    /\ enabled' = enabled
    /\ ThreadFrame

ConcurrentNext ==
    \/ \E t \in Threads : Call(t)
    \/ \E t \in Threads : Answer(t)
    \/ \E t \in Threads : Statistics(t)

ConcurrentSpec == ConcurrentInit /\ [][ConcurrentNext]_vars

\* ------------------------------------------------------------ the launcher
\* launcher.at is the position of run(); backend_process is the field of the
\* launcher, backend the process python3 run_app.py itself.  The other
\* fields up to pkill are what the launcher finds on the machine.
HealthOutcomes == {"200", "503", "refused"}

Machine ==
    [run_app_py : BOOLEAN, frontend_dir : BOOLEAN, index_html : BOOLEAN,
     python3 : BOOLEAN, health : HealthOutcomes, port_free : BOOLEAN, pkill : BOOLEAN]

\* ChroniCompanionLauncher()
Constructed(m) ==
    [at |-> "constructed", machine |-> m,
     backend_process |-> "None", backend |-> "none", frontend |-> "none",
     checked |-> "none", started |-> "none", cleanups |-> 0, exit |-> "none"]

LauncherInit ==
    /\ entries = <<>>
    /\ op = "none"
    /\ arg = "none"
    /\ result = NoResult
    /\ enabled = FALSE
    /\ pc = "idle"
    /\ calls = 0
    /\ response = NoResponse
    /\ prompt = NoPrompt
    /\ table = <<>>
    /\ threads = NoThreads
    /\ launcher \in {Constructed(m) : m \in Machine}

LauncherFrame ==
    UNCHANGED <<entries, op, arg, result, enabled, pc, calls, response, prompt, table, threads>>

\* the positions of run() inside its try block
InTry == {"check_dependencies", "kill_existing_processes", "start_backend", "launched",
          "health_check", "start_frontend", "serve_forever"}

\* cleanup(): terminate() (and kill() after the wait timed out) on the stored
\* process, then pkill -f "python3 run_app.py", whose failure is ignored
cleanup(l) ==
    [l EXCEPT !.cleanups = @ + 1,
              !.backend = IF @ = "running" /\ (l.backend_process = "Popen" \/ l.machine.pkill)
                          THEN "terminated" ELSE @]

\* an exception leaves the try block: the with statement of start_frontend
\* closes the server, run() goes to its finally clause
Unwind(l, exit) ==
    [l EXCEPT !.at = "finally", !.exit = exit,
              !.frontend = IF @ = "serving" THEN "closed" ELSE @]

\* run() up to the try block: signal.signal(signal.SIGINT, signal_handler)
run ==
    /\ launcher.at = "constructed"
    /\ launcher' = [launcher EXCEPT !.at = "check_dependencies"]
    /\ LauncherFrame

check_dependencies ==
    /\ launcher.at = "check_dependencies"
    /\ LET found == /\ launcher.machine.run_app_py
                    /\ launcher.machine.frontend_dir
                    /\ launcher.machine.index_html
       IN launcher' = IF found
                      THEN [launcher EXCEPT !.checked = TRUE, !.at = "kill_existing_processes"]
                      \* sys.exit(1)
                      ELSE Unwind([launcher EXCEPT !.checked = FALSE], "SystemExit(1)")
    /\ LauncherFrame

kill_existing_processes ==
    /\ launcher.at = "kill_existing_processes"
    /\ launcher' = [launcher EXCEPT !.at = "start_backend"]
    /\ LauncherFrame

\* start_backend up to the return of subprocess.Popen
start_backend ==
    /\ launcher.at = "start_backend"
    /\ launcher' = IF launcher.machine.python3
                   THEN [launcher EXCEPT !.backend = "running", !.at = "launched"]
                   \* except Exception: return False, and run() calls sys.exit(1)
                   ELSE Unwind([launcher EXCEPT !.started = FALSE], "SystemExit(1)")
    /\ LauncherFrame

\* self.backend_process = <the Popen object>
StoreBackendProcess ==
    /\ launcher.at = "launched"
    /\ launcher' = [launcher EXCEPT !.backend_process = "Popen", !.at = "health_check"]
    /\ LauncherFrame

\* time.sleep(3) and the request to /health: start_backend returns True
\* whatever the answer
HealthCheck ==
    /\ launcher.at = "health_check"
    /\ launcher' = [launcher EXCEPT !.started = TRUE, !.at = "start_frontend"]
    /\ LauncherFrame

\* start_frontend up to httpd.serve_forever(), or to return False when the
\* port cannot be bound
start_frontend ==
    /\ launcher.at = "start_frontend"
    /\ launcher' = IF launcher.machine.port_free
                   THEN [launcher EXCEPT !.frontend = "serving", !.at = "serve_forever"]
                   ELSE [launcher EXCEPT !.at = "finally"]
    /\ LauncherFrame

\* httpd.serve_forever() returns and start_frontend returns True
serve_forever ==
    /\ launcher.at = "serve_forever"
    /\ launcher' = [launcher EXCEPT !.frontend = "closed", !.at = "finally"]
    /\ LauncherFrame

\* except KeyboardInterrupt: pass, for a KeyboardInterrupt raised in the try
\* block
KeyboardInterrupt ==
    /\ launcher.at \in InTry
    /\ launcher' = Unwind(launcher, "none")
    /\ LauncherFrame

\* SIGINT: signal_handler runs cleanup() and sys.exit(0) between two
\* instructions of the main thread; SystemExit leaves the try block, or the
\* finally clause when the signal arrives there
signal_handler ==
    /\ launcher.at \in InTry \cup {"finally"}
    /\ launcher' = IF launcher.at = "finally"
                   THEN [cleanup(launcher) EXCEPT !.at = "exited", !.exit = "SystemExit(0)"]
                   ELSE Unwind(cleanup(launcher), "SystemExit(0)")
    /\ LauncherFrame

\* finally: self.cleanup(); run() ends by returning or with the pending exit
Finally ==
    /\ launcher.at = "finally"
    /\ launcher' = [cleanup(launcher) EXCEPT
                       !.at = "exited",
                       !.exit = IF @ = "none" THEN "return" ELSE @]
    /\ LauncherFrame

LauncherNext ==
    \/ run
    \/ check_dependencies
    \/ kill_existing_processes
    \/ start_backend
    \/ StoreBackendProcess
    \/ HealthCheck
    \/ start_frontend
    \/ serve_forever
    \/ KeyboardInterrupt
    \/ signal_handler
    \/ Finally

LauncherSpec == LauncherInit /\ [][LauncherNext]_vars

\* ================================================================= claims
\* Entries (by index) that report metric k, and the sum of what they report,
\* taken straight from the entry list.
Reporting(es, k) == {i \in 1..Len(es) : es[i][k] # None /\ es[i][k] # Absent}

RECURSIVE SumAt(_, _, _)
SumAt(es, k, I) ==
    IF I = {} THEN 0
    ELSE LET i == CHOOSE x \in I : TRUE IN es[i][k] + SumAt(es, k, I \ {i})

\* avg is the quotient total / count
IsQuotient(avg, total, count) ==
    /\ avg # NoData
    /\ avg[2] > 0
    /\ avg[1] * count = total * avg[2]

AvgKeys == <<"avg_mood", "avg_energy", "avg_pain", "avg_anxiety", "avg_fatigue">>

\* C1: for each of the five metrics _calculate_statistics returns the sum of
\* the reported values divided by their number (a reported 0 is a value), and
\* None, never 0, when no entry of the list reports the metric.
C1_AverageOfPresent ==
    op = "_calculate_statistics" =>
        /\ result.kind = "return"
        /\ \A j \in 1..5 :
              LET I == Reporting(entries, MetricKeys[j])
                  avg == result.value[AvgKeys[j]]
              IN IF I = {} THEN avg = NoData
                 ELSE IsQuotient(avg, SumAt(entries, MetricKeys[j], I), Cardinality(I))

\* a list of three: mood reported as 0 and as 4 and once not reported
C1_Witness ==
    /\ op = "_calculate_statistics"
    /\ Len(entries) = 3
    /\ \E i \in 1..3 : entries[i].mood_overall = 0
    /\ \E i \in 1..3 : entries[i].mood_overall = 4
    /\ \E i \in 1..3 : entries[i].mood_overall = None
    /\ result.value.avg_mood = <<2, 1>>

RowKeyOfLabel == [Mood |-> "mood_overall", Energy |-> "energy_level", Pain |-> "pain_level",
                  Anxiety |-> "anxiety_level", Fatigue |-> "fatigue_level"]

OnDate(es, d) == {i \in 1..Len(es) : es[i].date = d}

\* C2: in get_chart_data the value of a date is the mean of the reported
\* values of the entries of that date, and None, never 0, when no entry of
\* the date reports the metric.
C2_DailyMeanOfPresent ==
    (op = "get_chart_data" /\ entries # <<>>) =>
        LET chart == result.value IN
        /\ \A n \in 1..Len(ChartMetrics) :
              (arg = "all" \/ arg = ChartMetrics[n]) =>
                  \E s \in 1..Len(chart.datasets) : chart.datasets[s].label = ChartLabels[n]
        /\ \A s \in 1..Len(chart.datasets) :
              \A d \in {entries[i].date : i \in 1..Len(entries)} :
                  LET k == RowKeyOfLabel[chart.datasets[s].label]
                      I == OnDate(entries, d) \cap Reporting(entries, k)
                  IN \E j \in 1..Len(chart.labels) :
                        /\ chart.labels[j] = d
                        /\ j \in DOMAIN chart.datasets[s].data
                        /\ IF I = {} THEN chart.datasets[s].data[j] = NoData
                           ELSE IsQuotient(chart.datasets[s].data[j], SumAt(entries, k, I),
                                           Cardinality(I))

\* two entries of one day with mood 4 and 8 give 6.0; the other day has no mood
C2_Witness ==
    /\ op = "get_chart_data"
    /\ arg = "all"
    /\ Len(entries) = 3
    /\ entries[1].date = 2 /\ entries[1].mood_overall = None
    /\ entries[2].date = 1 /\ entries[2].mood_overall = 4
    /\ entries[3].date = 1 /\ entries[3].mood_overall = 8
    /\ result.value.labels = <<1, 2>>
    /\ result.value.datasets[1].data = <<<<6, 1>>, NoData>>

\* A rule fires when the call returns a list that holds the rule's flag.
Fires(rule) ==
    /\ result.kind = "return"
    /\ \E i \in 1..Len(result.value) : result.value[i][1] = rule

\* Entries that match a rule; an entry that does not report the field does not.
MatchesRule(e, rule) ==
    CASE rule = "high_pain" -> e.pain_level >= 7
      [] rule = "poor_sleep" -> e.sleep_quality \in {"poor", "very_poor"}
      [] rule = "low_energy" -> e.energy_level >= 0 /\ e.energy_level <= 3
      [] rule = "high_anxiety" -> e.anxiety_level >= 7

Matching(es, rule) == Cardinality({i \in 1..Len(es) : MatchesRule(es[i], rule)})

Rules == {"high_pain", "poor_sleep", "low_energy", "high_anxiety"}
TenthsOf == [high_pain |-> 3, poor_sleep |-> 4, low_energy |-> 3, high_anxiety |-> 3]

ShouldFire(es, rule) == 10 * Matching(es, rule) > TenthsOf[rule] * Len(es)

\* C3: each of the four rules fires exactly when its matching count is
\* strictly greater than its fraction of len(entries) (30%, 40%, 30%, 30%),
\* whatever the other rules meet.
C3_RulesFireOnThreshold ==
    op = "_identify_medical_patterns" =>
        \A rule \in Rules : Fires(rule) <=> ShouldFire(entries, rule)

\* C4: _identify_medical_patterns returns a non-empty list for every entry
\* list: the marker alone when no rule fires, no marker when a rule fires.
C4_NeverEmptyList ==
    op = "_identify_medical_patterns" =>
        /\ result.kind = "return"
        /\ Len(result.value) >= 1
        /\ (\A rule \in Rules : ~ShouldFire(entries, rule)) => result.value = <<NoPatternsMarker>>
        /\ (\E rule \in Rules : ShouldFire(entries, rule)) =>
              \A i \in 1..Len(result.value) : result.value[i] # NoPatternsMarker

Unreports(e) ==
    \/ e.pain_level \in {None, Absent}
    \/ e.energy_level \in {None, Absent}
    \/ e.anxiety_level \in {None, Absent}
    \/ e.sleep_quality \in {NoneStr, AbsentStr}

\* C5: an entry that does not report pain, energy, anxiety or sleep quality
\* (key absent, or present with None) counts as not matching, and the
\* detector still returns its flag list.
C5_UnreportedIsNoMatch ==
    (op = "_identify_medical_patterns" /\ \E i \in 1..Len(entries) : Unreports(entries[i])) =>
        /\ result.kind = "return"
        /\ \A i \in 1..Len(result.value) :
              result.value[i] # NoPatternsMarker =>
                  result.value[i][2] = Matching(entries, result.value[i][1])

TrendKeys == [mood_trend |-> "mood_overall", energy_trend |-> "energy_level",
              pain_trend |-> "pain_level"]
TrendNames == {"mood_trend", "energy_trend", "pain_trend"}

\* The reported values of metric k in list order.
RECURSIVE ReportedSeq(_, _)
ReportedSeq(es, k) ==
    IF es = <<>> THEN <<>>
    ELSE (IF es[1][k] = None \/ es[1][k] = Absent THEN <<>> ELSE <<es[1][k]>>)
         \o ReportedSeq(Tail(es), k)

\* The trend lines the context holds for a metric.
TrendsReported(name) ==
    {i \in 1..Len(result.value) : result.value[i].line = name}

BoundaryTrend(first, last) ==
    IF last > first THEN "increasing" ELSE IF last < first THEN "decreasing" ELSE "stable"

\* C6: for a non-empty sequence of present values the trend is increasing,
\* decreasing or stable as the last value is above, below or equal to the
\* first; no value in between has a say.
C6_TrendIsBoundaryComparison ==
    op = "_build_pattern_context" =>
        \A name \in TrendNames :
            LET values == ReportedSeq(entries, TrendKeys[name]) IN
            values # <<>> =>
                /\ Cardinality(TrendsReported(name)) = 1
                /\ \A i \in TrendsReported(name) :
                      result.value[i].trend = BoundaryTrend(values[1], values[Len(values)])

\* moods 8, 4, 4: decreasing although the last step is flat
C6_Witness ==
    /\ op = "_build_pattern_context"
    /\ ReportedSeq(entries, "mood_overall") = <<8, 4, 4>>
    /\ \E i \in 1..Len(result.value) :
          result.value[i].line = "mood_trend" /\ result.value[i].trend = "decreasing"

C8_DisabledReturnsNone ==
    (~enabled /\ op \in GatewayOps) =>
        /\ pc = "idle"
        /\ result = Returned(PyNone)
        /\ calls = 0
        /\ response = NoResponse

\* the disabled gateway asked for the summary of an entry
C8_Witness ==
    /\ ~enabled
    /\ op = "generate_entry_summary"
    /\ arg \in GatewayPool
    /\ result = Returned(PyNone)
    /\ calls = 0

\* C9: no gateway operation raises to its caller, whatever the entries hold
\* and whatever the completion service does: each of the seven returns a value.
C9_NoOperationRaises ==
    (op \in GatewayOps /\ pc = "idle") => result.kind = "return"

\* the service answered without a choice (IndexError inside the operation)
C9_Witness ==
    /\ enabled
    /\ op = "generate_predictive_insights"
    /\ pc = "idle"
    /\ response = [kind |-> "response", choices |-> 0]
    /\ result = Returned(PyNone)

\* A text that is not one JSON value, white space aside.
NonWhite(t) == SelectSeq(t, LAMBDA x : x # "ws")
Undecodable(t) == ~(Len(NonWhite(t)) = 1 /\ NonWhite(t)[1] \in JsonValues)

AnsweredWithText ==
    /\ pc = "idle"
    /\ response.kind = "response"
    /\ response.choices = 1
    /\ response.content.type = "str"

\* C10: enabled, and the crisis check answered with text that is not
\* decodable JSON: detect_crisis_patterns returns the fixed default payload,
\* risk_level 'none' and no concerning patterns, and does not raise.
C10_CrisisUndecodableGivesDefault ==
    (enabled /\ op = "detect_crisis_patterns" /\ AnsweredWithText
        /\ Undecodable(response.content.text)) =>
        /\ result.kind = "return"
        /\ {"risk_level", "concerning_patterns"} \subseteq DOMAIN result.value
        /\ result.value.risk_level = "none"
        /\ result.value.concerning_patterns = <<>>

\* the service answered the crisis check in prose
C10_Witness ==
    /\ enabled
    /\ op = "detect_crisis_patterns"
    /\ entries # <<>>
    /\ AnsweredWithText
    /\ response.content.text = <<"word", "word">>
    /\ result.kind = "return"
    /\ "risk_level" \in DOMAIN result.value

\* What the operation returns for some response text that fails JSON decoding.
IsDecodingFailureResult(name, r) ==
    \E t \in Texts : Undecodable(t) /\ r = Finish(name, TextResponse(t))

\* C11: for each JSON-artifact operation a transport error or a timeout of
\* the completion call gives the same result as a response that fails JSON
\* decoding: the default payload of the artifact, not None.
C11_TransportFailureGivesDefault ==
    (enabled /\ op \in JsonOps /\ pc = "idle" /\ response.kind = "error") =>
        /\ result # Returned(PyNone)
        /\ IsDecodingFailureResult(op, result)

\* A text that decodes as JSON but is not the object the prompt asks for.
WrongShape(t) == Len(NonWhite(t)) = 1 /\ NonWhite(t)[1] \in {"other_obj", "arr"}

\* C12: when the response text decodes as JSON without the artifact's shape
\* (an array, an object without the schema's fields), the JSON-artifact
\* operation returns the default payload, not the decoded value.
C12_WrongShapeGivesDefault ==
    (enabled /\ op \in JsonOps /\ AnsweredWithText /\ WrongShape(response.content.text)) =>
        result = Returned(Fallback(op, Strip(response.content.text)))

\* The operation came back with a default: None, or its decoding fallback.
Defaulted ==
    /\ op \in JsonOps
    /\ pc = "idle"
    /\ result.kind = "return"
    /\ \/ result.value = PyNone
       \/ AnsweredWithText /\ Undecodable(response.content.text)

\* C13: the default payload a caller receives for a JSON artifact, the
\* decoding fallback of the gateway or the substitute of the endpoint for
\* None, has exactly the fields of the schema the prompt asks for.
C13_DefaultHasSchemaFields ==
    Defaulted => DOMAIN EndpointPayload(op, result.value) = Schema(op)

\* C14: the decoding fallback does not depend on the response: every
\* undecodable text gives the payload that the text just answered gave.
C14_FallbackIgnoresResponseText ==
    (enabled /\ op \in JsonOps /\ AnsweredWithText /\ Undecodable(response.content.text)) =>
        \A t \in Texts : Undecodable(t) => Finish(op, TextResponse(t)) = result

\* C20: every free text of an entry that is part of a context sent to the
\* completion service was cut to at most 150 characters.
C20_ContextTextsAreCut ==
    \A i \in 1..Len(prompt) : "chars" \in DOMAIN prompt[i] => prompt[i].chars <= 150

\* ---- the entries API
FeedbackStep == op' = "generate_ai_feedback"

\* Row i got a new value in an AI field only from a requested gateway call
\* of this request that returned a value.
ChangedOnlyByResult(i, field, flag, answer) ==
    table'[i][field] # table[i][field] =>
        /\ result'.kind = "return"
        /\ arg'.entry_id = i
        /\ arg'[flag]
        /\ result'.value[answer] # PyNone

FeedbackFrame(free) ==
    FeedbackStep =>
        /\ Len(table') = Len(table)
        /\ \A i \in 1..Len(table) :
              /\ ChangedOnlyByResult(i, "ai_summary", "generate_summary", "summary")
              /\ ChangedOnlyByResult(i, "ai_insights", "generate_insights", "insights")
              /\ \A f \in DOMAIN table[i] \ free : table'[i][f] = table[i][f]

\* C15 as stated: generate_ai_feedback changes the stored ai_summary
\* (ai_insights) only when the summary (insights) call returned a non-null
\* result, and modifies no other field of any entry.
C15_FeedbackStoresOnlyResults ==
    [][FeedbackFrame({"ai_summary", "ai_insights"})]_vars

\* C15 amended: as above, except that updated_at is refreshed, and only when
\* one of the two AI fields was stored with a new value.
C15_FeedbackStoresOnlyResultsAndStamp ==
    [][/\ FeedbackFrame({"ai_summary", "ai_insights", "updated_at"})
       /\ FeedbackStep =>
            \A i \in 1..Len(table) :
                table'[i].updated_at # table[i].updated_at =>
                    \/ table'[i].ai_summary # table[i].ai_summary
                    \/ table'[i].ai_insights # table[i].ai_insights]_vars

\* both were requested; the summary came back and was stored, the insights
\* call returned None and the insights stored earlier are still there
C15_Witness ==
    /\ op = "generate_ai_feedback"
    /\ result.kind = "return"
    /\ arg.generate_summary /\ arg.generate_insights
    /\ result.value.summary # PyNone
    /\ result.value.insights = PyNone
    /\ table[arg.entry_id].ai_summary = result.value.summary
    /\ table[arg.entry_id].ai_insights # PyNone

\* C16: an entry created without pain_level (fatigue_level) is stored with
\* that metric missing, not 0.
C16_OmittedSymptomStoredAsMissing ==
    (op = "create_entry" /\ result.kind = "return") =>
        /\ arg.pain_level = Absent => table[Len(table)].pain_level = None
        /\ arg.fatigue_level = Absent => table[Len(table)].fatigue_level = None

NoRowReports(k) == \A i \in 1..Len(table) : table[i][k] = None
AllReportedZero(k) == ~NoRowReports(k) /\ \A i \in 1..Len(table) : table[i][k] \in {None, 0}

SummaryKeys == [mood |-> "mood_overall", energy |-> "energy_level", pain |-> "pain_level"]
TableLines == <<"mood_overall", "energy_level", "pain_level", "anxiety_level">>

\* C17: get_entries_summary and the summary table of the PDF report give
\* None / 'N/A' for a metric exactly when no entry reports it, and 0.0 for a
\* metric whose reported values are all 0.
C17_NoDataIsNotZero ==
    /\ op = "get_entries_summary" =>
          \A m \in DOMAIN SummaryKeys :
              /\ result.value.recent_averages[m] = PyNone <=> NoRowReports(SummaryKeys[m])
              /\ AllReportedZero(SummaryKeys[m]) =>
                     result.value.recent_averages[m] = [tenths |-> 0]
    /\ (op = "export_entries" /\ result.kind = "return" /\ arg.report_type = "comprehensive") =>
          \A j \in 1..Len(TableLines) :
              /\ result.value.story[j].average = NotAvailableCell <=> NoRowReports(TableLines[j])
              /\ AllReportedZero(TableLines[j]) =>
                     result.value.story[j].average = [tenths |-> 0]

\* C18: the doctor-summary report is built for every entry list; when no
\* entry reports pain, fatigue, mood or energy the report is still built.
C18_DoctorSummaryWithoutData ==
    (/\ op = "export_entries"
     /\ arg.report_type = "doctor_summary"
     /\ arg.days >= 1
     /\ table # <<>>
     /\ \E k \in {"pain_level", "fatigue_level", "mood_overall", "energy_level"} :
            NoRowReports(k)) =>
        result.kind = "return"

\* C19: a malformed window is answered with an error: get_entries with
\* date_from later than date_to, a window endpoint with a negative days.
C19_MalformedWindowIsAnError ==
    /\ (/\ op = "get_entries"
        /\ arg.date_from # None /\ arg.date_to # None
        /\ arg.date_from > arg.date_to) => result.kind = "raise"
    /\ (op \in {"get_trends", "export_entries"} /\ arg.days < 0) => result.kind = "raise"

\* ---- the weekly context, the crisis context
Present(es, k) == SelectSeq(Values(es, k), LAMBDA v : v \notin {None, Absent})
PromptLines(name) == SelectSeq(prompt, LAMBDA l : l.line = name)
WeeklyKeys == [average_mood |-> "mood_overall", average_energy |-> "energy_level",
               average_pain |-> "pain_level"]
WeeklyOps == {"generate_weekly_reflection", "generate_weekly_coaching"}
\* the reflection takes the entries it is given, the coaching their last 7
WeeklyWindow == IF op = "generate_weekly_coaching" THEN LastN(entries, 7) ELSE entries

\* C27: each average line of the weekly context is the mean, to one
\* decimal, of all values of the metric that the entries report, 0 included,
\* and the line is left out only when no entry reports the metric.
C27_WeeklyAverageOfPresent ==
    (op \in WeeklyOps /\ calls = 1) =>
        \A name \in DOMAIN WeeklyKeys :
            LET present == Present(WeeklyWindow, WeeklyKeys[name])
            IN PromptLines(name) =
                  IF present = <<>> THEN <<>>
                  ELSE <<[line |-> name,
                          tenths |-> Format1f(TrueDiv(Sum(present), Len(present)))]>>

\* C29: enabled, detect_crisis_patterns on a non-empty list of table rows,
\* some of which may report no mood, pain or anxiety: the service is called,
\* such a row is in no tally, and a decodable object is returned as decoded.
C29_CrisisToleratesMissingValues ==
    (enabled /\ op = "detect_crisis_patterns" /\ entries # <<>> /\ IsRows(entries)) =>
        /\ calls = 1
        /\ PromptLines("low_mood") =
              <<[line |-> "low_mood",
                 count |-> Len(SelectSeq(Present(LastN(entries, 5), "mood_overall"),
                                         LAMBDA v : v <= 3)),
                 n |-> Len(LastN(entries, 5))]>>
        /\ (AnsweredWithText /\ Strip(response.content.text) = <<"obj">>) =>
              result = Returned([type |-> "json", value |-> "obj"])

\* C21: an invocation calls the completion service at most once: while it
\* waits, it waits for its first call, and once the service has answered,
\* failed or timed out, the operation has returned.
C21_AtMostOneCall ==
    /\ pc \in {"idle", "awaiting"}
    /\ calls \in {0, 1}
    /\ pc = "awaiting" => (calls = 1 /\ response = NoResponse)
    /\ response # NoResponse => (pc = "idle" /\ calls = 1 /\ result # NoResult)

\* the one call timed out and the operation returned None
C21_Witness ==
    /\ pc = "idle"
    /\ calls = 1
    /\ response = [kind |-> "error", exc |-> "APITimeoutError"]
    /\ result = Returned(PyNone)

\* ---- the statistics and pattern functions as operations on a list
StatisticsOps == {"_calculate_statistics", "_identify_medical_patterns"}

SameDayReorderings(es) ==
    {[i \in 1..Len(es) |-> es[p[i]]] :
        p \in {q \in Permutations(1..Len(es)) :
                  \A i \in 1..Len(es) : es[q[i]].date = es[i].date}}

\* C24: get_chart_data gives the same labels and the same dataset values for
\* every reordering of the entries that share a date.
C24_SameDayOrderIrrelevant ==
    op = "get_chart_data" =>
        \A es \in SameDayReorderings(entries) :
            get_chart_data(es, arg) = result.value

\* two entries of one day with different moods, so that there is a
\* reordering that is not the identity
C24_Witness ==
    /\ op = "get_chart_data"
    /\ \E i, j \in 1..Len(entries) :
          /\ i < j
          /\ entries[i].date = entries[j].date
          /\ entries[i].mood_overall = 4 /\ entries[j].mood_overall = 8
    /\ Cardinality(SameDayReorderings(entries)) > 1

WindowDates == {entries[i].date : i \in 1..Len(entries)}

\* C25: for a non-empty window the labels are the dates of the window, each
\* once, ascending; every dataset has one value for each label; the entry
\* counts of the dates add up to total_entries.
C25_LabelsAndDatasetsAligned ==
    (op = "get_chart_data" /\ entries # <<>>) =>
        LET chart == result.value
            daily_data == DailyData(entries)
        IN /\ {chart.labels[j] : j \in 1..Len(chart.labels)} = WindowDates
           /\ \A i, j \in 1..Len(chart.labels) : i < j => chart.labels[i] < chart.labels[j]
           /\ \A s \in 1..Len(chart.datasets) :
                 DOMAIN chart.datasets[s].data = DOMAIN chart.labels
           /\ Sum([j \in 1..Len(chart.labels) |-> daily_data[chart.labels[j]].count])
                 = chart.total_entries
           /\ chart.total_entries = Len(entries)

\* three entries on two dates, all five datasets
C25_Witness ==
    /\ op = "get_chart_data"
    /\ arg = "all"
    /\ Len(entries) = 3
    /\ Len(result.value.labels) = 2
    /\ Len(result.value.datasets) = 5

\* ---- the endpoints over the recent entries
\* the rows get_predictive_insights handed on, in the order of entries
AnalysedRows == LastN(Reverse(Window(table, arg.days)), 7)

\* the row of rows with the earliest (latest) timestamp that reports k
EarliestReporting(rows, k) ==
    CHOOSE r \in rows : r[k] # None /\ \A q \in rows : q[k] # None => r.timestamp <= q.timestamp
LatestReporting(rows, k) ==
    CHOOSE r \in rows : r[k] # None /\ \A q \in rows : q[k] # None => r.timestamp >= q.timestamp

\* C26: the predictive pipeline compares in chronological order: the analysed
\* list runs from the earliest entry to the latest, and the trend of a metric
\* is 'increasing' exactly when its most recent present value exceeds its
\* oldest present value.
C26_TrendIsChronological ==
    (op = "get_predictive_insights" /\ calls = 1) =>
        LET rows == {AnalysedRows[i] : i \in 1..Len(AnalysedRows)} IN
        /\ entries = [i \in 1..Len(AnalysedRows) |-> PredictiveEntryData(AnalysedRows[i])]
        /\ \A i, j \in 1..Len(AnalysedRows) :
              i < j => AnalysedRows[i].timestamp < AnalysedRows[j].timestamp
        /\ \A name \in TrendNames :
              (\E r \in rows : r[TrendKeys[name]] # None) =>
                 \E i \in 1..Len(prompt) :
                    /\ prompt[i].line = name
                    /\ prompt[i].trend = "increasing" <=>
                          LatestReporting(rows, TrendKeys[name])[TrendKeys[name]]
                             > EarliestReporting(rows, TrendKeys[name])[TrendKeys[name]]

\* the n rows of a sequence of rows that have the latest timestamps
Latest(rows, n) ==
    {rows[i] : i \in {j \in 1..Len(rows) :
        Cardinality({q \in 1..Len(rows) : rows[q].timestamp > rows[j].timestamp}) < n}}

\* the rows crisis_pattern_check fetched
CrisisRows == FirstN(Reverse(table), RecentLimit)

\* the notes the crisis context quotes, each as its length, with their number
QuotedNotes ==
    [chars \in {prompt[i].chars : i \in {j \in 1..Len(prompt) : prompt[j].line = "recent_note"}} |->
        Cardinality({i \in 1..Len(prompt) :
            prompt[i].line = "recent_note" /\ prompt[i].chars = chars})]

\* the non-empty notes of a set of rows, cut to 150 characters, with their number
NotesOf(rows) ==
    [chars \in {Cut(r.additional_notes, 150) : r \in {q \in rows : Truthy(q.additional_notes)}} |->
        Cardinality({r \in rows :
            Truthy(r.additional_notes) /\ Cut(r.additional_notes, 150) = chars})]

\* C28: of more than 7 entries get_predictive_insights supplies, the 7 with
\* the latest timestamps are analysed; of 5 or more crisis_pattern_check
\* supplies, the 5 with the latest timestamps are analysed and the notes of
\* the 2 latest are quoted.
C28_RecentAreLatest ==
    /\ (op = "get_predictive_insights" /\ calls = 1 /\ Len(Window(table, arg.days)) > 7) =>
          \A d \in {PredictiveEntryData(r) : r \in Latest(table, MaxRecentRows)} :
             Cardinality({i \in 1..Len(entries) : entries[i] = d})
                = Cardinality({r \in Latest(Window(table, arg.days), 7) :
                                  PredictiveEntryData(r) = d})
    /\ (op = "crisis_pattern_check" /\ calls = 1 /\ Len(CrisisRows) >= 5) =>
          /\ \A d \in {CrisisEntryData(r) : r \in Latest(table, MaxRecentRows)} :
                Cardinality({i \in 1..Len(entries) : entries[i] = d})
                   = Cardinality({r \in Latest(CrisisRows, 5) : CrisisEntryData(r) = d})
          /\ QuotedNotes = NotesOf(Latest(CrisisRows, 2))

\* ---- concurrent invocations
\* what the invocation th returns when it runs alone on the service as it was
\* constructed
Alone(th) ==
    IF th.op = "_calculate_statistics" THEN Returned(_calculate_statistics(th.entries))
    ELSE Invoke(th.op, Prepared(th.op, th.entries), th.response)

C30_CleanupTerminatesBackend ==
    /\ (launcher.at = "exited" /\ launcher.backend # "none") =>
          launcher.cleanups >= 1 /\ launcher.backend = "terminated"
    /\ (launcher.at # "none" /\ launcher.frontend # "none") =>
          launcher.checked = TRUE /\ launcher.started = TRUE
====
